---- MODULE Spec2Model ----
(***************************************************************************)
(* Model of TelethonMessageConverter.MessageToSyntax: one object built    *)
(* from a message and its entities, and the calls of to_syntax on it.     *)
(*                                                                         *)
(* A Python str is a sequence of characters; a bytes object a sequence of *)
(* integers 0..255.  Markup literals of the tag dictionaries ('<b>',      *)
(* '</pre>', ...) are kept as single, indivisible elements of the string  *)
(* they belong to, so an output string is the sequence of the characters  *)
(* and markup literals it is made of, in order.  The empty str is << >>.  *)
(*                                                                         *)
(* A call of to_syntax is one step.  Spec reuses the object over any       *)
(* in-bounds entity lists; SpecPlain does so for texts without entities;   *)
(* SpecAligned is the single conversion of texts with well-placed entities.*)
(***************************************************************************)
EXTENDS Integers, Sequences, FiniteSets, TLC

\* Bounds of the model.
MaxLen == 2        \* characters of the message
MaxEntities == 2   \* entities of the message
MaxCalls == 2      \* calls of to_syntax on one object
\* Bounds of the specifications of single cases, below.
MaxPlainLen == 4        \* characters of a message without entities
MaxAlignedLen == 2      \* characters of a message with well-placed entities
MaxAlignedEntities == 1 \* well-placed entities of a message

\* The characters of the messages: a plain character, a markup-significant
\* one, the line break, and U+1F600, a character outside the basic plane
\* (two 16-bit units).
Chars == {"a", "<", "\n", "U1F600"}

\* The entity kinds of the messages (type(e).__name__), of the twenty the
\* dictionaries know: a static tag, the code tag, a tag made from e.language,
\* a tag made from the covered text, and a kind that has no tag in any syntax.
Kinds == {"MessageEntityBold", "MessageEntityCode", "MessageEntityPre",
          "MessageEntityUrl", "MessageEntityBotCommand"}

\* The syntax selectors; "text" stands for every selector that is none of the
\* others (the default case of the match).
Syntaxes == {"docuwiki", "markdown", "html", "text"}

VARIABLES
  _message,         \* self._message
  _entities,        \* self._entities
  _message_b16,     \* self._message_b16
  _positions,       \* self._positions
  output,           \* self.output
  _ENTITIES_TO_TAG, \* self._ENTITIES_TO_TAG: the selector it was loaded for
  calls,            \* history: the calls made, <<[type, ret, stack]>>
  trace             \* history: what the walk of the last call emitted

vars == <<_message, _entities, _message_b16, _positions, output,
          _ENTITIES_TO_TAG, calls, trace>>

----------------------------------------------------------------------------
\* Sequences and Python slices

RECURSIVE Concat(_)
Concat(ss) == IF ss = <<>> THEN <<>> ELSE Head(ss) \o Concat(Tail(ss))

\* b[i:j] for 0 <= i and j clamped to the length, as Python clamps it
Slice(b, i, j) ==
  LET hi == IF j > Len(b) THEN Len(b) ELSE j
  IN  IF i >= hi THEN <<>> ELSE SubSeq(b, i + 1, hi)

\* b[i:None]
SliceFrom(b, i) == Slice(b, i, Len(b))

Contains(seq, x) == \E i \in DOMAIN seq : seq[i] = x

----------------------------------------------------------------------------
\* str.encode('utf-16-le') and bytes.decode('utf-16-le')

\* the bytes of one character: its 16-bit units, low byte first
Utf16leBytes(c) ==
  CASE c = "a"      -> <<97, 0>>
    [] c = "<"      -> <<60, 0>>
    [] c = "\n"     -> <<10, 0>>
    [] c = "U1F600" -> <<61, 216, 0, 222>>   \* D83D DE00

RECURSIVE encode(_)
encode(s) == IF s = <<>> THEN <<>> ELSE Utf16leBytes(Head(s)) \o encode(Tail(s))

IsHighSurrogate(u) == u >= 55296 /\ u <= 56319
IsLowSurrogate(u) == u >= 56320 /\ u <= 57343

\* the character of one 16-bit unit of the basic plane
CharOfUnit(u) == CASE u = 97 -> "a" [] u = 60 -> "<" [] u = 10 -> "\n" [] OTHER -> "?"

\* the character of a surrogate pair
CharOfPair(hi, lo) == IF hi = 55357 /\ lo = 56832 THEN "U1F600" ELSE "?"

\* strict decoding: [ok |-> TRUE, value |-> str], or ok = FALSE where Python
\* raises UnicodeDecodeError (truncated data, a surrogate without its pair)
RECURSIVE decode(_)
decode(b) ==
  IF b = <<>> THEN [ok |-> TRUE, value |-> <<>>]
  ELSE IF Len(b) < 2 THEN [ok |-> FALSE, value |-> <<>>]
  ELSE
    LET u == b[1] + 256 * b[2] IN
    IF IsHighSurrogate(u) THEN
      IF Len(b) < 4 THEN [ok |-> FALSE, value |-> <<>>]
      ELSE
        LET v == b[3] + 256 * b[4] IN
        IF ~IsLowSurrogate(v) THEN [ok |-> FALSE, value |-> <<>>]
        ELSE
          LET r == decode(SliceFrom(b, 4)) IN
          IF r.ok THEN [ok |-> TRUE, value |-> <<CharOfPair(u, v)>> \o r.value]
          ELSE r
    ELSE IF IsLowSurrogate(u) THEN [ok |-> FALSE, value |-> <<>>]
    ELSE
      LET r == decode(SliceFrom(b, 2)) IN
      IF r.ok THEN [ok |-> TRUE, value |-> <<CharOfUnit(u)>> \o r.value]
      ELSE r

----------------------------------------------------------------------------
\* html.escape(s), quote=True

EscapeChar(c) ==
  CASE c = "&"  -> "&amp;"
    [] c = "<"  -> "&lt;"
    [] c = ">"  -> "&gt;"
    [] c = "\"" -> "&quot;"
    [] c = "'"  -> "&#x27;"
    [] OTHER    -> c

escape(s) == [i \in DOMAIN s |-> EscapeChar(s[i])]

\* s.replace('\n', '')
RECURSIVE RemoveNewlines(_)
RemoveNewlines(s) ==
  IF s = <<>> THEN <<>>
  ELSE IF Head(s) = "\n" THEN RemoveNewlines(Tail(s))
  ELSE <<Head(s)>> \o RemoveNewlines(Tail(s))

----------------------------------------------------------------------------
\* Tags and the tag dictionaries

_Tag(opening, closing) == [opening |-> opening, closing |-> closing]

_PositionChange(to_open, to_close, br) ==
  [to_open |-> to_open, to_close |-> to_close, br |-> br]

\* The markdown dictionaries' backquote is written BACKTICK: the module's
\* strings cannot hold the character itself.

\* the dictionary value None
None == [none |-> TRUE]

\* a dictionary value that is a lambda: the entry it is, in which dictionary
Lambda(type, kind) == [fn |-> kind, syntax |-> type]

callable(tag) == "fn" \in DOMAIN tag

\* e.language of the MessageEntityPre entities of the messages
language(e) == <<"py">>

docuwiki_dict ==
  [ MessageEntityBold       |-> _Tag(<<"**">>, <<"**">>),
    MessageEntityBotCommand |-> None,
    MessageEntityCode       |-> _Tag(<<"\n  ">>, <<>>),
    MessageEntityPre        |-> Lambda("docuwiki", "MessageEntityPre"),
    MessageEntityUrl        |-> Lambda("docuwiki", "MessageEntityUrl"),
    TagsParagraph           |-> _Tag(<<>>, <<"\n">>),
    TagsNewline             |-> _Tag(<<>>, <<"\n">>) ]

markdown_dict ==
  [ MessageEntityBold       |-> _Tag(<<"**">>, <<"**">>),
    MessageEntityBotCommand |-> None,
    MessageEntityCode       |-> _Tag(<<"BACKTICK">>, <<"BACKTICK">>),
    MessageEntityPre        |-> Lambda("markdown", "MessageEntityPre"),
    MessageEntityUrl        |-> Lambda("markdown", "MessageEntityUrl"),
    TagsParagraph           |-> _Tag(<<>>, <<"\n">>),
    TagsNewline             |-> _Tag(<<>>, <<"\n">>) ]

html_dict ==
  [ MessageEntityBold       |-> _Tag(<<"<b>">>, <<"</b>">>),
    MessageEntityBotCommand |-> None,
    MessageEntityCode       |-> _Tag(<<"<pre>">>, <<"</pre>">>),
    MessageEntityPre        |-> Lambda("html", "MessageEntityPre"),
    MessageEntityUrl        |-> Lambda("html", "MessageEntityUrl"),
    TagsParagraph           |-> _Tag(<<"<p>">>, <<"</p>">>),
    TagsNewline             |-> _Tag(<<>>, <<"<br />">>) ]

text_dict ==
  [ MessageEntityBold       |-> None,
    MessageEntityBotCommand |-> None,
    MessageEntityCode       |-> None,
    MessageEntityPre        |-> None,
    MessageEntityUrl        |-> None,
    TagsParagraph           |-> _Tag(<<>>, <<"\n">>),
    TagsNewline             |-> _Tag(<<>>, <<"\n">>) ]

set_syntax_dict(type) ==
  CASE type = "docuwiki" -> docuwiki_dict
    [] type = "markdown" -> markdown_dict
    [] type = "html"     -> html_dict
    [] OTHER             -> text_dict

\* tag(e, txt) for a dictionary value that is a lambda
CallTag(tag, e, s) ==
  CASE tag.syntax = "docuwiki" /\ tag.fn = "MessageEntityPre" ->
         _Tag(<<"<pre language=\"">> \o escape(language(e)) \o <<"\">">>, <<"</pre>">>)
    [] tag.syntax = "docuwiki" /\ tag.fn = "MessageEntityUrl" ->
         _Tag(<<"[[">> \o escape(s) \o <<"|">>, <<"]]">>)
    [] tag.syntax = "markdown" /\ tag.fn = "MessageEntityPre" ->
         _Tag(<<"BACKTICK BACKTICK BACKTICK">> \o escape(language(e)) \o <<"\n">>, <<"\nBACKTICK BACKTICK BACKTICK">>)
    [] tag.syntax = "markdown" /\ tag.fn = "MessageEntityUrl" ->
         _Tag(<<"[">>, <<"](">> \o escape(s) \o <<")">>)
    [] tag.syntax = "html" /\ tag.fn = "MessageEntityPre" ->
         _Tag(<<"<pre language=\"">> \o escape(language(e)) \o <<"\">">>, <<"</pre>">>)
    [] tag.syntax = "html" /\ tag.fn = "MessageEntityUrl" ->
         _Tag(<<"<a href=\"">> \o escape(s) \o <<"\">">>, <<"</a>">>)

----------------------------------------------------------------------------
\* The object: MessageToSyntax.__init__

\* an entity of the message: type(e).__name__, e.offset, e.length
Entity(kind, offset, length) == [kind |-> kind, offset |-> offset, length |-> length]

\* the fields of a newly constructed object; an absent entity list (None) and
\* the empty list are the same to every test the code makes (not entities)
__init__(message, entities) ==
  [ _message         |-> message,
    _entities        |-> entities,
    output           |-> <<>>,
    _message_b16     |-> encode(message),
    _positions       |-> [i \in {} |-> _PositionChange(<<>>, <<>>, FALSE)],
    _ENTITIES_TO_TAG |-> "unset" ]

----------------------------------------------------------------------------
\* The position index

_ensure_position_exists(positions, i) ==
  IF i \in DOMAIN positions THEN positions
  ELSE positions @@ (i :> _PositionChange(<<>>, <<>>, FALSE))

EntityStart(e) == e.offset * 2

EntityEnd(e) == (e.offset + e.length) * 2

\* the body of the loop over the entities, for one entity:
\* [ok, positions], ok = FALSE where decoding the covered bytes raises
PrepareEntity(positions, b16, dict, e) ==
  LET start == EntityStart(e)
      end   == EntityEnd(e)
      p1    == _ensure_position_exists(_ensure_position_exists(positions, start), end)
      tag   == dict[e.kind]
      put(t) == LET p2 == [p1 EXCEPT ![start].to_open = Append(@, t)]
                IN  [p2 EXCEPT ![end].to_close = <<t>> \o @]
  IN  IF tag = None THEN [ok |-> TRUE, positions |-> p1]
      ELSE IF callable(tag) THEN
        LET txt == decode(Slice(b16, start, end)) IN
        IF txt.ok THEN [ok |-> TRUE, positions |-> put(CallTag(tag, e, txt.value))]
        ELSE [ok |-> FALSE, positions |-> p1]
      ELSE [ok |-> TRUE, positions |-> put(tag)]

RECURSIVE _prepare_entity_positions_utf16le(_, _, _, _)
_prepare_entity_positions_utf16le(positions, b16, dict, entities) ==
  IF entities = <<>> THEN [ok |-> TRUE, positions |-> positions]
  ELSE
    LET r == PrepareEntity(positions, b16, dict, Head(entities)) IN
    IF r.ok THEN _prepare_entity_positions_utf16le(r.positions, b16, dict, Tail(entities))
    ELSE r

\* a key counted in characters, two bytes each
BrPosition_PerCharacter(message, i) == 2 * i

\* the key of the line break message[i] (i from 0): the length of the
\* encoding of the text before it
BrPosition(message, i) == Len(encode(Slice(message, 0, i)))

\* the loop of _prepare_br_positions from index i (from 0) on
RECURSIVE PrepareBrFrom(_, _, _)
PrepareBrFrom(positions, message, i) ==
  IF i >= Len(message) THEN positions
  ELSE IF message[i + 1] = "\n" THEN
    LET k  == BrPosition(message, i)
        p1 == _ensure_position_exists(positions, k)
    IN  PrepareBrFrom([p1 EXCEPT ![k].br = TRUE], message, i + 1)
  ELSE PrepareBrFrom(positions, message, i + 1)

_prepare_br_positions(positions, message) == PrepareBrFrom(positions, message, 0)

\* list(sorted(keys))
RECURSIVE sorted(_)
sorted(keys) ==
  IF keys = {} THEN <<>>
  ELSE LET m == CHOOSE x \in keys : \A y \in keys : x <= y
       IN  <<m>> \o sorted(keys \ {m})

----------------------------------------------------------------------------
\* The walk over the separation points (the main loop of to_syntax)

\* What the walk emitted, one record per emission: a closing tag ("close",
\* with the top of opened_tags when it was popped), the line-break markup
\* ("newline" or "paragraph", with the tag it comes from), an opening tag
\* ("open") or a text segment ("text": the decoded part and what was appended).
Event(k, at, tag, top, txt, out) ==
  [k |-> k, at |-> at, tag |-> tag, top |-> top, txt |-> txt, out |-> out]

\* the state of the walk: the output so far, opened_tags, the emissions, and
\* the exception that ended it ("" while none has)
Walk(out, opened, tr, exc) ==
  [output |-> out, opened_tags |-> opened, trace |-> tr, exc |-> exc]

\* for t in to_close: opened_tags.pop(); output += t.closing
RECURSIVE CloseTags(_, _, _)
CloseTags(w, to_close, index) ==
  IF to_close = <<>> THEN w
  ELSE IF w.opened_tags = <<>> THEN [w EXCEPT !.exc = "IndexError"]
  ELSE
    LET t   == Head(to_close)
        n   == Len(w.opened_tags)
        top == w.opened_tags[n]
    IN  CloseTags(
          Walk(w.output \o t.closing,
               SubSeq(w.opened_tags, 1, n - 1),
               Append(w.trace, Event("close", index, t, top, <<>>, t.closing)),
               w.exc),
          Tail(to_close), index)

\* the test of the line-break branch: the code tag is in opened_tags
CodeIsOpen(dict, opened_tags) == Contains(opened_tags, dict["MessageEntityCode"])

\* if br: the newline tag's closing, or the paragraph's closing and opening
HandleBr(w, br, dict, tag_paragraph, tag_newline, index) ==
  IF ~br THEN w
  ELSE IF CodeIsOpen(dict, w.opened_tags) THEN
    Walk(w.output \o tag_newline.closing, w.opened_tags,
         Append(w.trace, Event("newline", index, tag_newline, None, <<>>,
                               tag_newline.closing)),
         w.exc)
  ELSE
    Walk(w.output \o tag_paragraph.closing \o tag_paragraph.opening, w.opened_tags,
         Append(w.trace, Event("paragraph", index, tag_paragraph, None, <<>>,
                               tag_paragraph.closing \o tag_paragraph.opening)),
         w.exc)

\* for t in to_open: opened_tags.append(t); output += t.opening
RECURSIVE OpenTags(_, _, _)
OpenTags(w, to_open, index) ==
  IF to_open = <<>> THEN w
  ELSE
    LET t == Head(to_open)
    IN  OpenTags(
          Walk(w.output \o t.opening,
               Append(w.opened_tags, t),
               Append(w.trace, Event("open", index, t, None, <<>>, t.opening)),
               w.exc),
          Tail(to_open), index)

\* output += escape(unchanged_part.replace('\n', ''))
AppendText(w, unchanged_part, index) ==
  LET piece == escape(RemoveNewlines(unchanged_part))
  IN  Walk(w.output \o piece, w.opened_tags,
           Append(w.trace, Event("text", index, None, None, unchanged_part, piece)),
           w.exc)

\* one pass of the main loop, for separations_points[pos] (pos from 1)
LoopBody(w, positions, b16, dict, tag_paragraph, tag_newline, points, pos) ==
  LET index == points[pos] IN
  IF index # Len(b16) /\ pos + 1 > Len(points) THEN [w EXCEPT !.exc = "IndexError"]
  ELSE
    LET bytes == IF index # Len(b16) THEN Slice(b16, index, points[pos + 1])
                 ELSE SliceFrom(b16, index)
        unchanged_part == decode(bytes)
    IN
    IF ~unchanged_part.ok THEN [w EXCEPT !.exc = "UnicodeDecodeError"]
    ELSE
      LET w1 == CloseTags(w, positions[index].to_close, index) IN
      IF w1.exc # "" THEN w1
      ELSE
        LET w2 == HandleBr(w1, positions[index].br, dict, tag_paragraph,
                           tag_newline, index)
            w3 == OpenTags(w2, positions[index].to_open, index)
        IN  AppendText(w3, unchanged_part.value, index)

RECURSIVE MainLoop(_, _, _, _, _, _, _, _)
MainLoop(w, positions, b16, dict, tag_paragraph, tag_newline, points, pos) ==
  IF pos > Len(points) \/ w.exc # "" THEN w
  ELSE MainLoop(LoopBody(w, positions, b16, dict, tag_paragraph, tag_newline,
                         points, pos),
                positions, b16, dict, tag_paragraph, tag_newline, points, pos + 1)

\* a result that is left unwrapped
WrapParagraph_Missing(out, tag_paragraph) == out

\* the wrap of the result in the paragraph tag
WrapParagraph(out, tag_paragraph) ==
  IF tag_paragraph.opening # <<>> \/ tag_paragraph.closing # <<>>
  THEN tag_paragraph.opening \o out \o tag_paragraph.closing
  ELSE out

----------------------------------------------------------------------------
\* to_syntax

\* what a call of to_syntax gives: the object's fields after it, the value
\* returned or the exception raised, opened_tags and the emissions at its end
Outcome(self, ok, value, exc, stack, tr) ==
  [self |-> self, ret |-> [ok |-> ok, value |-> value, exc |-> exc],
   stack |-> stack, trace |-> tr]

\* the test of the fast path
IsFastPath(entities, message) == entities = <<>> /\ ~Contains(message, "\n")

\* a fast path that escapes the text as the algorithm does
FastPath_Escaped(self) ==
  Outcome([self EXCEPT !.output = escape(self._message)], TRUE,
          escape(self._message), "", <<>>, <<>>)

\* the fast path: the message as it is
FastPath(self) ==
  Outcome([self EXCEPT !.output = self._message], TRUE, self._message, "", <<>>, <<>>)

\* the rest of to_syntax
FullAlgorithm(self, type) ==
  LET dict          == set_syntax_dict(type)
      tag_paragraph == dict["TagsParagraph"]
      tag_newline   == dict["TagsNewline"]
      b16           == self._message_b16
      s1            == [self EXCEPT !._ENTITIES_TO_TAG = type]
      p0            == _ensure_position_exists(
                         _ensure_position_exists(self._positions, 0), Len(b16))
      pe            == _prepare_entity_positions_utf16le(p0, b16, dict, self._entities)
  IN
  IF ~pe.ok THEN
    Outcome([s1 EXCEPT !._positions = pe.positions], FALSE, <<>>,
            "UnicodeDecodeError", <<>>, <<>>)
  ELSE
    LET positions == _prepare_br_positions(pe.positions, self._message)
        points    == sorted(DOMAIN positions)
        w         == MainLoop(Walk(self.output, <<>>, <<>>, ""), positions, b16,
                              dict, tag_paragraph, tag_newline, points, 1)
        s2        == [s1 EXCEPT !._positions = positions]
    IN
    IF w.exc # "" THEN
      Outcome([s2 EXCEPT !.output = w.output], FALSE, <<>>, w.exc,
              w.opened_tags, w.trace)
    ELSE
      LET result == WrapParagraph(w.output, tag_paragraph)
      IN  Outcome([s2 EXCEPT !.output = result], TRUE, result, "",
                  w.opened_tags, w.trace)

to_syntax(self, type) ==
  IF IsFastPath(self._entities, self._message) THEN FastPath(self)
  ELSE FullAlgorithm(self, type)

----------------------------------------------------------------------------
\* The state machine

\* the characters of a message, counted in 16-bit units
Units(message) == Len(encode(message)) \div 2

Messages == UNION {[1..n -> Chars] : n \in 0..MaxLen}

\* the entities within the text: 0 <= offset, 0 <= length, offset + length
\* at most the units of the text
EntitiesOf(message) ==
  {Entity(k, o, l) : k \in Kinds, o \in 0..Units(message), l \in 0..Units(message)}
    \cap {e \in [kind : Kinds, offset : 0..Units(message), length : 0..Units(message)] :
            e.offset + e.length <= Units(message)}

EntityLists(message) == UNION {[1..n -> EntitiesOf(message)] : n \in 0..MaxEntities}

self == [ _message         |-> _message,
          _entities        |-> _entities,
          output           |-> output,
          _message_b16     |-> _message_b16,
          _positions       |-> _positions,
          _ENTITIES_TO_TAG |-> _ENTITIES_TO_TAG ]

\* the state after MessageToSyntax(message, entities)
Constructed(message, entities) ==
  LET new == __init__(message, entities) IN
  /\ _message = new._message
  /\ _entities = new._entities
  /\ output = new.output
  /\ _message_b16 = new._message_b16
  /\ _positions = new._positions
  /\ _ENTITIES_TO_TAG = new._ENTITIES_TO_TAG
  /\ calls = <<>>
  /\ trace = <<>>

Init ==
  \E message \in Messages : \E entities \in EntityLists(message) :
    Constructed(message, entities)

\* the object after a call, and the call in the history
Called(type, r) ==
  /\ _message' = r.self._message
  /\ _entities' = r.self._entities
  /\ output' = r.self.output
  /\ _message_b16' = r.self._message_b16
  /\ _positions' = r.self._positions
  /\ _ENTITIES_TO_TAG' = r.self._ENTITIES_TO_TAG
  /\ calls' = Append(calls, [type |-> type, ret |-> r.ret, stack |-> r.stack])
  /\ trace' = r.trace

\* a call of to_syntax that takes the fast path
ToSyntaxFast(type) ==
  /\ Len(calls) < MaxCalls
  /\ IsFastPath(_entities, _message)
  /\ Called(type, to_syntax(self, type))

\* a call of to_syntax that runs the algorithm
ToSyntaxFull(type) ==
  /\ Len(calls) < MaxCalls
  /\ ~IsFastPath(_entities, _message)
  /\ Called(type, to_syntax(self, type))

Next ==
  \/ \E type \in Syntaxes : ToSyntaxFast(type)
  \/ \E type \in Syntaxes : ToSyntaxFull(type)

Spec == Init /\ [][Next]_vars

----------------------------------------------------------------------------
\* The text as the claims speak of it: characters and 16-bit units, counted
\* on the characters themselves

\* the 16-bit units of a character
Width(c) == IF c = "U1F600" THEN 2 ELSE 1

\* the units before the character message[i] (i from 0)
RECURSIVE UnitOffset(_, _)
UnitOffset(message, i) ==
  IF i = 0 THEN 0 ELSE UnitOffset(message, i - 1) + Width(message[i])

\* the unit offsets at which a character starts or the text ends
Boundaries(message) == {UnitOffset(message, i) : i \in 0..Len(message)}

\* the characters whose units lie in [a, b)
CharsBetween(message, a, b) ==
  LET idx == {i \in 1..Len(message) :
                a <= UnitOffset(message, i - 1) /\ UnitOffset(message, i - 1) < b}
  IN  IF idx = {} THEN <<>>
      ELSE SubSeq(message, CHOOSE i \in idx : \A j \in idx : i <= j,
                           CHOOSE i \in idx : \A j \in idx : j <= i)

\* the unit offsets of the line breaks
LineBreaks(message) ==
  {UnitOffset(message, i - 1) : i \in {j \in 1..Len(message) : message[j] = "\n"}}

\* the markup escaping of a character, as the specification states it
Escaped(c) == IF c = "<" THEN "&lt;" ELSE c

\* the text without its line breaks, escaped
RECURSIVE EscapedText(_)
EscapedText(s) ==
  IF s = <<>> THEN <<>>
  ELSE IF Head(s) = "\n" THEN EscapedText(Tail(s))
  ELSE <<Escaped(Head(s))>> \o EscapedText(Tail(s))

\* the text as <p>segment</p>, one per line-break-separated segment
RECURSIVE Paragraphs(_, _)
Paragraphs(s, segment) ==
  IF s = <<>> THEN <<"<p>">> \o segment \o <<"</p>">>
  ELSE IF Head(s) = "\n"
    THEN <<"<p>">> \o segment \o <<"</p>">> \o Paragraphs(Tail(s), <<>>)
  ELSE Paragraphs(Tail(s), segment \o <<Escaped(Head(s))>>)

Returned(value) == [ok |-> TRUE, value |-> value, exc |-> ""]

LastCall == calls[Len(calls)]

\* the entity has a tag in the syntax
HasTag(type, e) == set_syntax_dict(type)[e.kind] # None

SpanStart(e) == e.offset
SpanEnd(e) == e.offset + e.length

\* the spans are disjoint or one contains the other
DisjointOrNested(e, f) ==
  \/ SpanEnd(e) <= SpanStart(f)
  \/ SpanEnd(f) <= SpanStart(e)
  \/ SpanStart(e) <= SpanStart(f) /\ SpanEnd(f) <= SpanEnd(e)
  \/ SpanStart(f) <= SpanStart(e) /\ SpanEnd(e) <= SpanEnd(f)

\* the list without its i-th entity
Without(entities, i) ==
  SubSeq(entities, 1, i - 1) \o SubSeq(entities, i + 1, Len(entities))

\* what a newly constructed object returns
Fresh(message, entities, type) == to_syntax(__init__(message, entities), type).ret

IsBreak(ev) == ev.k = "newline" \/ ev.k = "paragraph"

\* the newline tag's closing text in the syntax
NewlineText(type) == set_syntax_dict(type)["TagsNewline"].closing

----------------------------------------------------------------------------
\* The conversions of texts without entities, on an object that is reused

PlainMessages == UNION {[1..n -> Chars] : n \in 0..MaxPlainLen}

InitPlain == \E message \in PlainMessages : Constructed(message, <<>>)

SpecPlain == InitPlain /\ [][Next]_vars

\* The conversion (an object is built and to_syntax called on it once) of
\* texts whose entities have positive length and lie on character boundaries

\* an entity of positive length, on character boundaries
OnBoundaries(message, e) ==
  /\ e.length > 0
  /\ SpanStart(e) \in Boundaries(message)
  /\ SpanEnd(e) \in Boundaries(message)

AlignedMessages == UNION {[1..n -> Chars] : n \in 0..MaxAlignedLen}

AlignedEntityLists(message) ==
  UNION {[1..n -> {e \in EntitiesOf(message) : OnBoundaries(message, e)}] :
           n \in 0..MaxAlignedEntities}

InitAligned ==
  \E message \in AlignedMessages : \E entities \in AlignedEntityLists(message) :
    Constructed(message, entities)

\* the first call of to_syntax on the object, by the fast path
ConvertFast(type) ==
  /\ calls = <<>>
  /\ IsFastPath(_entities, _message)
  /\ Called(type, to_syntax(self, type))

\* the first call of to_syntax on the object, by the algorithm
ConvertFull(type) ==
  /\ calls = <<>>
  /\ ~IsFastPath(_entities, _message)
  /\ Called(type, to_syntax(self, type))

NextConvert ==
  \/ \E type \in Syntaxes : ConvertFast(type)
  \/ \E type \in Syntaxes : ConvertFull(type)

SpecAligned == InitAligned /\ [][NextConvert]_vars

----------------------------------------------------------------------------
\* C1. Fast path: a text without line break, converted with no entities, is
\* returned exactly as given by every call, whatever the syntax: nothing is
\* escaped, wrapped or tagged.
C1_FastPath ==
  (_entities = <<>> /\ ~Contains(_message, "\n")) =>
    /\ \A i \in DOMAIN calls : calls[i].ret = Returned(_message)
    /\ (calls # <<>> => output = _message /\ trace = <<>>)

C1_Witness ==
  /\ Len(calls) = 2
  /\ calls[1].type = "html" /\ calls[2].type = "markdown"
  /\ _entities = <<>>
  /\ _message = <<"<", "a", "U1F600">>
  /\ calls[2].ret = Returned(<<"<", "a", "U1F600">>)

\* C2. No state persists across calls: every call returns what a newly
\* constructed object with the same text and entities returns for the syntax.
C2_NoStateAcrossCalls ==
  \A i \in DOMAIN calls :
    calls[i].ret.ok => calls[i].ret = Fresh(_message, _entities, calls[i].type)

\* C3. LIFO nesting: when the entities have positive length and the spans of
\* any two tagged entities are disjoint or nested, in whatever order they are
\* listed, every closing tag emitted is the tag on top of the open-tag stack.
C3_LifoNesting ==
  (/\ calls # <<>>
   /\ \A i \in DOMAIN _entities : _entities[i].length > 0
   /\ \A i, j \in DOMAIN _entities :
        (HasTag(LastCall.type, _entities[i]) /\ HasTag(LastCall.type, _entities[j]))
          => DisjointOrNested(_entities[i], _entities[j]))
  => \A n \in DOMAIN trace : trace[n].k = "close" => trace[n].tag = trace[n].top

\* C4. Line break in code: in html, markdown and docuwiki, a line break at
\* unit p inside the span of a Code entity, start <= p < end, is rendered by
\* the newline tag's closing text, not by the paragraph's closing and opening.
\* (In markdown and docuwiki the two texts are the same, "\n"; they differ in
\* html.)
C4_LineBreakInCode ==
  (/\ calls # <<>>
   /\ LastCall.type \in {"html", "markdown", "docuwiki"}
   /\ LastCall.ret.ok)
  => \A i \in DOMAIN _entities : \A p \in LineBreaks(_message) :
       (/\ _entities[i].kind = "MessageEntityCode"
        /\ SpanStart(_entities[i]) <= p /\ p < SpanEnd(_entities[i]))
       => /\ \E n \in DOMAIN trace : IsBreak(trace[n]) /\ trace[n].at = 2 * p
          /\ \A n \in DOMAIN trace :
               (IsBreak(trace[n]) /\ trace[n].at = 2 * p)
                 => trace[n].out = NewlineText(LastCall.type)

\* C5. Paragraph wrapping: the HTML conversion of a text without entities
\* that has a line break is <p>segment</p> for each line-break-separated
\* segment of the text in order, the segment escaped.  (The conversion is the
\* call on a newly constructed object; for later calls see C2.)
C5_ParagraphWrapping ==
  (/\ calls # <<>>
   /\ calls[1].type = "html"
   /\ _entities = <<>>
   /\ Contains(_message, "\n"))
  => calls[1].ret = Returned(Paragraphs(_message, <<>>))

C5_Witness ==
  /\ calls # <<>>
  /\ calls[1].type = "html"
  /\ _entities = <<>>
  /\ _message = <<"a", "\n", "<", "\n">>
  /\ calls[1].ret = Returned(<<"<p>", "a", "</p>", "<p>", "&lt;", "</p>", "<p>", "</p>">>)

\* the tag of an entity, its covered text taken from the characters
ExpectedTag(type, message, e) ==
  LET d == set_syntax_dict(type)[e.kind]
  IN  IF callable(d)
      THEN CallTag(d, e, CharsBetween(message, SpanStart(e), SpanEnd(e)))
      ELSE d

IsText(n) == trace[n].k = "text"

\* the cut point after the text segment trace[n]: the next segment's, or the
\* end of the text
NextCut(n) ==
  LET later == {m \in DOMAIN trace : m > n /\ IsText(m)}
  IN  IF later = {} THEN 2 * Units(_message)
      ELSE trace[CHOOSE m \in later : \A k \in later : m <= k].at

\* the text segment emitted last before trace[n]
TextBefore(n) ==
  LET earlier == {m \in DOMAIN trace : m < n /\ IsText(m)}
  IN  CHOOSE m \in earlier : \A k \in earlier : k <= m

\* C6. Offset unit: with texts of one-unit and two-unit characters and
\* entities of positive length on character boundaries, the call returns;
\* each tagged entity's opening is emitted after all text before unit
\* `offset` and right before the segment that starts with the character at
\* `offset`, its closing right after the segment that ends with the character
\* at `offset+length-1`, the text given to a dynamic tag is the characters of
\* [offset, offset+length); every segment is the characters between its cut
\* points; and the cut points of the line breaks are the line breaks' unit
\* offsets, in the unit of the entities' cut points (twice the 16-bit offset).
C6_OffsetUnit ==
  (/\ calls # <<>>
   /\ (_entities # <<>> \/ Contains(_message, "\n"))
   /\ \A i \in DOMAIN _entities : OnBoundaries(_message, _entities[i]))
  => /\ LastCall.ret.ok
     /\ \A i \in DOMAIN _entities :
          HasTag(LastCall.type, _entities[i]) =>
            LET e   == _entities[i]
                tag == ExpectedTag(LastCall.type, _message, e)
                in  == CharsBetween(_message, SpanStart(e), SpanEnd(e))
            IN
            /\ \E n \in DOMAIN trace :
                 /\ trace[n].k = "open" /\ trace[n].tag = tag
                 /\ trace[n].at = 2 * SpanStart(e)
                 /\ \A m \in DOMAIN trace :
                      (IsText(m) /\ m < n) => trace[m].at < 2 * SpanStart(e)
                 /\ \E m \in DOMAIN trace :
                      /\ IsText(m) /\ m > n /\ trace[m].at = 2 * SpanStart(e)
                      /\ trace[m].txt # <<>> /\ Head(trace[m].txt) = Head(in)
            /\ \E n \in DOMAIN trace :
                 /\ trace[n].k = "close" /\ trace[n].tag = tag
                 /\ trace[n].at = 2 * SpanEnd(e)
                 /\ \A m \in DOMAIN trace :
                      (IsText(m) /\ m > n) => trace[m].at >= 2 * SpanEnd(e)
                 /\ LET m == TextBefore(n) IN
                      /\ NextCut(m) = 2 * SpanEnd(e)
                      /\ trace[m].txt # <<>>
                      /\ trace[m].txt[Len(trace[m].txt)] = in[Len(in)]
     /\ \A n \in DOMAIN trace :
          IsText(n) => /\ trace[n].at % 2 = 0
                       /\ trace[n].txt = CharsBetween(_message, trace[n].at \div 2,
                                                      NextCut(n) \div 2)
     /\ {trace[n].at : n \in {m \in DOMAIN trace : IsBreak(trace[m])}}
          = {2 * p : p \in LineBreaks(_message)}

C6_Witness ==
  /\ calls # <<>>
  /\ LastCall.type = "html"
  /\ LastCall.ret.ok
  /\ _message = <<"U1F600", "\n">>
  /\ _entities = <<Entity("MessageEntityUrl", 0, 2)>>
  /\ \E n \in DOMAIN trace :
       /\ trace[n].k = "open" /\ trace[n].at = 0
       /\ trace[n].tag = _Tag(<<"<a href=\"", "U1F600", "\">">>, <<"</a>">>)
  /\ \E n \in DOMAIN trace : trace[n].k = "close" /\ trace[n].at = 4
  /\ \E n \in DOMAIN trace : trace[n].k = "paragraph" /\ trace[n].at = 4

\* C7. Line break in a pre-formatted block: in html, markdown and docuwiki, a
\* line break at unit p strictly inside the span of a Pre entity that is the
\* innermost open entity there is rendered by the newline tag's closing text,
\* not by the paragraph's closing and opening.
C7_LineBreakInPre ==
  (/\ calls # <<>>
   /\ LastCall.type \in {"html", "markdown", "docuwiki"}
   /\ LastCall.ret.ok)
  => \A i \in DOMAIN _entities : \A p \in LineBreaks(_message) :
       (/\ _entities[i].kind = "MessageEntityPre"
        /\ SpanStart(_entities[i]) < p /\ p < SpanEnd(_entities[i])
        /\ \A j \in DOMAIN _entities \ {i} :
             HasTag(LastCall.type, _entities[j]) =>
               (SpanEnd(_entities[j]) < p \/ p < SpanStart(_entities[j])))
       => /\ \E n \in DOMAIN trace : IsBreak(trace[n]) /\ trace[n].at = 2 * p
          /\ \A n \in DOMAIN trace :
               (IsBreak(trace[n]) /\ trace[n].at = 2 * p)
                 => trace[n].out = NewlineText(LastCall.type)

\* C8. Text conservation and escaping: whenever the algorithm runs (an entity
\* or a line break) and the entities lie within the text, the text segments
\* emitted by the walk, in order, are the text without its line breaks,
\* escaped: every character once, in order, no raw "<".
C8_TextConservation ==
  (/\ calls # <<>>
   /\ (_entities # <<>> \/ Contains(_message, "\n"))
   /\ \A i \in DOMAIN _entities : SpanEnd(_entities[i]) <= Units(_message))
  => Concat([n \in 1..Len(SelectSeq(trace, LAMBDA ev : ev.k = "text")) |->
               SelectSeq(trace, LAMBDA ev : ev.k = "text")[n].out])
       = EscapedText(_message)

\* C9. An entity without a tag in the syntax contributes nothing: the string
\* returned is the string returned for the list without the entity, also
\* when it is the only entity and the text has no line break.
C9_NoTagEntityContributesNothing ==
  (/\ calls # <<>>
   /\ calls[1].ret.ok
   /\ \A i \in DOMAIN _entities : OnBoundaries(_message, _entities[i]))
  => \A i \in DOMAIN _entities :
       ~HasTag(calls[1].type, _entities[i])
         => calls[1].ret = Fresh(_message, Without(_entities, i), calls[1].type)

\* C10. Stack balance with zero-length entities: with entities within the
\* text of length >= 0, the walk never pops the empty open-tag stack (the
\* call does not fail with IndexError), and the stack is empty at its end.
C10_StackBalance ==
  \A i \in DOMAIN calls :
    /\ calls[i].ret.exc # "IndexError"
    /\ (calls[i].ret.ok => calls[i].stack = <<>>)

====
